---------------------------- MODULE Spec2Model ----------------------------
(***************************************************************************)
(* A model of the sliding window iterator adapter `Windows` of             *)
(* src/src/lib.rs: the adapted iterator, the VecDeque buffer, the window   *)
(* size, and `Windows::next` taken one statement at a time.                *)
(*                                                                         *)
(* VecDeques live in a heap of cells addressed by their index, so that a   *)
(* window handed to the caller and the adapter's own buffer are distinct   *)
(* objects only because `clone` allocates a new one.                       *)
(***************************************************************************)
EXTENDS Integers, Sequences, FiniteSets, TLC

\* Longest source sequence tried.
MaxLen == 4
\* How many returned windows the caller may change or discard in one run.
MaxConsumerOps == 1

\* Calls of next() in one run: enough to see every window of the longest
\* source, the first exhausted pull and one pull after it.
MaxPulls == MaxLen + 2

\* The element type T: two distinguishable values.
Elems == {"a", "b"}
\* What a source yields when it signals exhaustion before its end (None).
NoneItem == "none"

VARIABLES
  source,        \* ghost: the source as handed to windows()
  iter,          \* Windows.iter: what the adapted iterator has yet to yield
  window,        \* Windows.window: address of the buffer's VecDeque (0: none yet)
  window_size,   \* Windows.window_size (the argument of windows(), also when construction fails)
  heap,          \* the VecDeques allocated so far: [live, v]
  elem_lg,       \* the element type T, by the binary logarithm of size_of::<T>()
  pc,            \* "start" (not constructed), "idle" (between pulls), "refill" (in the loop),
                 \* "panicked" / "aborted" (construction failed: there is no adapter),
                 \* "overflowed" (a call of next() overflowed the stack: the process is gone)
  results,       \* ghost: what each finished call of next() returned
  touched,       \* ghost: indices of results the caller has changed or discarded
  pulled         \* ghost: elements the current (or last) call of next() took from iter

vars == <<source, iter, window, window_size, heap, elem_lg, pc, results, touched, pulled>>

----------------------------------------------------------------------------
(* Helpers *)

SeqsUpTo(S, n) == UNION {[1..k -> S] : k \in 0..n}

\* Sources that keep signalling exhaustion once exhausted (a Vec, a slice).
FusedSources == SeqsUpTo(Elems, MaxLen)
\* Sources that may signal exhaustion and later yield again.
AnySources == SeqsUpTo(Elems \cup {NoneItem}, MaxLen)
\* usize and isize have 64 bits: isize::MAX = 2^IsizeBits - 1.
IsizeBits == 63
\* The largest window_size tried (the largest integer of the checker).
HugeSize == 2^30 + (2^30 - 1)
\* Element types by the binary logarithm of size_of::<T>(): an 8-byte element
\* (isize) and a 2^33-byte one ([u64; 1 << 30]).
ElemLgs == {3, 33}
\* A large window_size: 2 GiB of 8-byte elements, 2^61 bytes of 2^33-byte ones.
LargeSize == 268435456
\* What the allocator of the machine may be able to grant in one allocation,
\* by the binary logarithm of the bytes: 8 GiB (a machine with 15 GiB of
\* memory) or 128 TiB (the whole user address space of x86_64). Which one is
\* the machine's choice, not the program's.
AllocLimitLgs == {33, 47}
\* The stack a thread calling next() may have, by the binary logarithm of the
\* bytes: 8 MiB (the main thread's default) or 64 GiB (a thread spawned with
\* a stack that holds the frame of next() for every element type tried).
StackLgs == {23, 36}

\* with_capacity panics ('capacity overflow') when cap elements take more
\* than isize::MAX bytes: cap > isize::MAX div size_of::<T>(). For elements
\* of less than 2^33 bytes that bound lies above every capacity tried.
CapacityOverflows(cap, lg) ==
  lg >= IsizeBits - 30 /\ cap > 2^(IsizeBits - lg) - 1
\* with_capacity aborts the process (handle_alloc_error) when the allocator
\* does not grant the buffer; a capacity of 0 allocates nothing.
\* The buffer takes cap * 2^lg bytes and the allocator grants 2^lim bytes.
AllocFails(cap, lg, lim) ==
  /\ cap > 0
  /\ \/ lim < lg
     \/ lim - lg <= 30 /\ cap > 2^(lim - lg)
\* next() keeps elements of type T in its frame (the Option<T> of
\* self.iter.next() among them): a call on a stack of 2^stk bytes overflows
\* it when one element does not fit.
StackOverflows(lg, stk) == lg > stk

\* window_size values tried: zero, every fitting size, one oversize, and huge
\* ones around the limits above.
Sizes ==
  (0..(MaxLen + 1)) \cup {LargeSize, 2^30 - 1, 2^30, 2^30 + 1, HugeSize}

\* The element types a source is tried with: 8-byte elements for every
\* source; 2^33-byte elements for the empty source only (Vec::new()), every
\* element of such a source taking 8 GiB.
ElemLgsOf(src) == IF src = <<>> THEN ElemLgs ELSE {3}

\* Option<VecDeque<T>> as returned by next(): `val` is the window's contents
\* at the moment it was returned, `addr` the object returned.
None == [some |-> FALSE, addr |-> 0, val |-> <<>>]
Some(a, v) == [some |-> TRUE, addr |-> a, val |-> v]

\* self.iter.next(): the item yielded, if any, and the iterator afterwards.
IterYields(it) == it # <<>> /\ Head(it) # NoneItem
IterItem(it) == Head(it)
IterRest(it) == IF it = <<>> THEN it ELSE Tail(it)

\* The buffer's contents.
Buf == heap[window].v

\* VecDeque::with_capacity(cap): a new empty deque with room for cap elements,
\* allocated at once; a panic or an abort when that room cannot be had.
VecDequeWithCapacity(h, cap, lg, lim) ==
  IF CapacityOverflows(cap, lg)
    THEN [outcome |-> "panicked", heap |-> h, addr |-> 0]
    ELSE IF AllocFails(cap, lg, lim)
      THEN [outcome |-> "aborted", heap |-> h, addr |-> 0]
      ELSE [outcome |-> "ok",
            heap |-> Append(h, [live |-> TRUE, v |-> <<>>]),
            addr |-> Len(h) + 1]

\* pop_front: removes the first element; nothing to do on an empty deque.
PopFrontTwo(q) == IF Len(q) < 2 THEN <<>> ELSE Tail(Tail(q))
PopBack(q) == IF q = <<>> THEN q ELSE SubSeq(q, 1, Len(q) - 1)
PopFront(q) == IF q = <<>> THEN q ELSE Tail(q)

\* push_back
PushFront(q, e) == <<e>> \o q
PushBack(q, e) == Append(q, e)

\* clone: a new deque with the same contents.
VecDequeCloneAlias(h, a) == [heap |-> h, addr |-> a]
VecDequeClone(h, a) == [heap |-> Append(h, [live |-> TRUE, v |-> h[a].v]), addr |-> Len(h) + 1]

\* The heap with the contents of cell a replaced.
Store(h, a, q) == [h EXCEPT ![a] = [live |-> h[a].live, v |-> q]]

\* `self.window_size == 0`
IsZeroSizeNever(n) == FALSE
IsZeroSize(n) == n = 0

\* `self.window.len() == self.window_size`
IsFullNever(len, n) == FALSE
IsFullNonEmpty(len, n) == len > 0
IsFull(len, n) == len = n

\* `self.window.len() < self.window_size`
RefillNeededInclusive(len, n) == len <= n
RefillNeededShort(len, n) == len < n - 1
RefillNeeded(len, n) == len < n

----------------------------------------------------------------------------
(* Construction *)

Init ==
  /\ source = <<>>
  /\ iter = <<>>
  /\ window = 0
  /\ window_size = 0
  /\ heap = <<>>
  /\ elem_lg = 0
  /\ pc = "start"
  /\ results = <<>>
  /\ touched = {}
  /\ pulled = 0

\* A construction that fills the buffer at once.
WindowsNewEager(src, n, lg, lim) ==
  /\ pc = "start"
  /\ source' = src
  /\ LET k == IF Len(src) < n THEN Len(src) ELSE n
         a == VecDequeWithCapacity(heap, n, lg, lim)
     IN IF a.outcome = "ok"
          THEN /\ iter' = SubSeq(src, k + 1, Len(src))
               /\ heap' = Store(a.heap, a.addr, SubSeq(src, 1, k))
               /\ window' = a.addr
               /\ pc' = "idle"
          ELSE /\ iter' = src
               /\ heap' = a.heap
               /\ window' = a.addr
               /\ pc' = a.outcome
  /\ window_size' = n
  /\ elem_lg' = lg
  /\ UNCHANGED <<results, touched, pulled>>

\* src.windows(n): Windows::new(src.into_iter(), n), for elements of 2^lg
\* bytes on a machine whose allocator grants up to 2^lim bytes. The buffer is
\* allocated here, before any pull; when with_capacity panics or aborts no
\* adapter is made and nothing was taken from the source.
WindowsNew(src, n, lg, lim) ==
  /\ pc = "start"
  /\ source' = src
  /\ iter' = src
  /\ LET a == VecDequeWithCapacity(heap, n, lg, lim)
     IN /\ heap' = a.heap
        /\ window' = a.addr
        /\ pc' = IF a.outcome = "ok" THEN "idle" ELSE a.outcome
  /\ window_size' = n
  /\ elem_lg' = lg
  /\ UNCHANGED <<results, touched, pulled>>

----------------------------------------------------------------------------
(* Windows::next *)

\* The thread calling next() has a stack that holds its frame / has not.
FrameFits == \E stk \in StackLgs : ~StackOverflows(elem_lg, stk)
FrameOverflows == \E stk \in StackLgs : StackOverflows(elem_lg, stk)

\* Entering next() on a stack too small for its frame: the process aborts
\* ('has overflowed its stack') before the source is asked for anything.
NextOverflow ==
  /\ pc = "idle"
  /\ Len(results) < MaxPulls
  /\ FrameOverflows
  /\ pc' = "overflowed"
  /\ UNCHANGED <<source, iter, window, window_size, heap, elem_lg, results, touched, pulled>>

\* A zero-size pull that asks the source for an element before giving up.
NextZeroConsuming ==
  /\ pc = "idle"
  /\ Len(results) < MaxPulls
  /\ FrameFits
  /\ IsZeroSize(window_size)
  /\ iter' = IterRest(iter)
  /\ results' = Append(results, None)
  /\ pulled' = 0
  /\ UNCHANGED <<source, window, window_size, elem_lg, heap, pc, touched>>

\* window_size == 0: return None.
NextZero ==
  /\ pc = "idle"
  /\ Len(results) < MaxPulls
  /\ FrameFits
  /\ IsZeroSize(window_size)
  /\ results' = Append(results, None)
  /\ pulled' = 0
  /\ UNCHANGED <<source, iter, window, window_size, elem_lg, heap, pc, touched>>

\* window_size != 0: evict the oldest element of a full buffer, enter the loop.
NextEvict ==
  /\ pc = "idle"
  /\ Len(results) < MaxPulls
  /\ FrameFits
  /\ ~IsZeroSize(window_size)
  /\ heap' = IF IsFull(Len(Buf), window_size)
               THEN Store(heap, window, PopFront(Buf))
               ELSE heap
  /\ pc' = "refill"
  /\ pulled' = 0
  /\ UNCHANGED <<source, iter, window, window_size, elem_lg, results, touched>>

\* A refill that takes one element for each call of next().
RefillPushOnce ==
  /\ pc = "refill"
  /\ RefillNeeded(Len(Buf), window_size)
  /\ IterYields(iter)
  /\ heap' = Store(heap, window, PushBack(Buf, IterItem(iter)))
  /\ iter' = IterRest(iter)
  /\ IF RefillNeeded(Len(Buf) + 1, window_size)
       THEN pc' = "idle" /\ results' = Append(results, None)
       ELSE UNCHANGED <<pc, results>>
  /\ pulled' = pulled + 1
  /\ UNCHANGED <<source, window, window_size, elem_lg, touched>>

\* The loop's body when the source yields: Some(elem) => push_back(elem).
RefillPush ==
  /\ pc = "refill"
  /\ RefillNeeded(Len(Buf), window_size)
  /\ IterYields(iter)
  /\ heap' = Store(heap, window, PushBack(Buf, IterItem(iter)))
  /\ iter' = IterRest(iter)
  /\ pulled' = pulled + 1
  /\ UNCHANGED <<source, window, window_size, elem_lg, pc, results, touched>>

\* A loop that is left on None, so that the buffer is returned as it is.
RefillNoneBreak ==
  /\ pc = "refill"
  /\ RefillNeeded(Len(Buf), window_size)
  /\ ~IterYields(iter)
  /\ iter' = IterRest(iter)
  /\ LET c == VecDequeClone(heap, window)
     IN /\ heap' = c.heap
        /\ results' = Append(results, Some(c.addr, c.heap[c.addr].v))
  /\ pc' = "idle"
  /\ UNCHANGED <<source, window, window_size, elem_lg, touched, pulled>>

\* The loop's body when the source signals exhaustion: None => return None.
RefillNone ==
  /\ pc = "refill"
  /\ RefillNeeded(Len(Buf), window_size)
  /\ ~IterYields(iter)
  /\ iter' = IterRest(iter)
  /\ results' = Append(results, None)
  /\ pc' = "idle"
  /\ UNCHANGED <<source, window, window_size, elem_lg, heap, touched, pulled>>

\* The loop is over: Some(self.window.clone()).
NextReturn ==
  /\ pc = "refill"
  /\ ~RefillNeeded(Len(Buf), window_size)
  /\ LET c == VecDequeClone(heap, window)
     IN /\ heap' = c.heap
        /\ results' = Append(results, Some(c.addr, c.heap[c.addr].v))
  /\ pc' = "idle"
  /\ UNCHANGED <<source, iter, window, window_size, elem_lg, touched, pulled>>

----------------------------------------------------------------------------
(* The caller, who owns every window it was given *)

CanTouch(k) ==
  /\ pc = "idle"
  /\ k \in 1..Len(results)
  /\ results[k].some
  /\ k \notin touched
  /\ Cardinality(touched) < MaxConsumerOps

\* The caller changes a window it was given (here: pop_front).
ConsumerMutate(k) ==
  /\ CanTouch(k)
  /\ heap[results[k].addr].v # <<>>
  /\ heap' = Store(heap, results[k].addr, PopFront(heap[results[k].addr].v))
  /\ touched' = touched \cup {k}
  /\ UNCHANGED <<source, iter, window, window_size, elem_lg, pc, results, pulled>>

\* The caller drops a window it was given.
ConsumerDrop(k) ==
  /\ CanTouch(k)
  /\ heap' = [heap EXCEPT ![results[k].addr] = [live |-> FALSE, v |-> <<>>]]
  /\ touched' = touched \cup {k}
  /\ UNCHANGED <<source, iter, window, window_size, elem_lg, pc, results, pulled>>

Consumer == \E k \in 1..MaxPulls : ConsumerMutate(k) \/ ConsumerDrop(k)

----------------------------------------------------------------------------
(* Specifications *)

NewFused ==
  /\ pc = "start"
  /\ \E src \in FusedSources, n \in Sizes, lim \in AllocLimitLgs :
       \E lg \in ElemLgsOf(src) : WindowsNew(src, n, lg, lim)
NewAny ==
  /\ pc = "start"
  /\ \E src \in AnySources, n \in Sizes, lim \in AllocLimitLgs :
       \E lg \in ElemLgsOf(src) : WindowsNew(src, n, lg, lim)

Next ==
  \/ NewFused
  \/ NextOverflow
  \/ NextZero
  \/ NextEvict
  \/ RefillPush
  \/ RefillNone
  \/ NextReturn
  \/ Consumer

\* The adapter over sources that stay exhausted.
Spec == Init /\ [][Next]_vars

NextAny ==
  \/ NewAny
  \/ NextOverflow
  \/ NextZero
  \/ NextEvict
  \/ RefillPush
  \/ RefillNone
  \/ NextReturn
  \/ Consumer

\* The adapter over any source, also one that yields again after a None.
SpecAny == Init /\ [][NextAny]_vars

\* Any step of a call of next().
PullStep == NextOverflow \/ NextZero \/ NextEvict \/ RefillPush \/ RefillNone \/ NextReturn

\* The adapter is constructed and its caller keeps pulling: a call of next()
\* that can take a step takes it.
SpecFair == Spec /\ WF_vars(NewFused) /\ WF_vars(PullStep)

----------------------------------------------------------------------------
(* Properties *)

\* The windows returned so far, in the order of their pulls.
Emitted == SelectSeq(results, LAMBDA r : r.some)

\* The source elements consumed so far.
Consumed == Len(source) - Len(iter)

\* All contiguous sub-sequences of S of length n, by start position.
Reference(S, n) == [k \in 1..(Len(S) - n + 1) |-> SubSeq(S, k, k + n - 1)]

Exhausted == \E i \in 1..Len(results) : ~results[i].some

\* The adapter exists.
Built == pc \in {"idle", "refill"}

\* windows() was called and gave no adapter.
ConstructionFailed == pc \in {"panicked", "aborted"}

Fits == Built /\ 0 < window_size /\ window_size <= Len(source)

\* C1: for 0 < window_size <= length(S), the k-th window returned is
\* S[k .. k+window_size-1] (k from 1 here), and once a pull has signalled
\* exhaustion the windows returned are exactly the reference list of all
\* contiguous sub-sequences of that length, in order of start position.
C1_WindowsInOrder ==
  Fits =>
    /\ \A k \in 1..Len(Emitted) :
         Emitted[k].val = SubSeq(source, k, k + window_size - 1)
    /\ Exhausted =>
         [k \in 1..Len(Emitted) |-> Emitted[k].val] = Reference(source, window_size)

C1_Witness ==
  /\ Fits
  /\ window_size = 2
  /\ Len(source) >= 4
  /\ source[1] # source[2]
  /\ Exhausted
  /\ Len(Emitted) = Len(source) - 1

\* C2: every window returned has exactly window_size elements, never none,
\* whatever the source.
C2_WindowLength ==
  \A k \in 1..Len(results) :
    results[k].some =>
      /\ Len(results[k].val) = window_size
      /\ Len(results[k].val) # 0

C2_Witness ==
  /\ window_size = 3
  /\ Len(Emitted) >= 2
  /\ Exhausted

\* C3: for 0 < window_size <= length(S), pulls 1 .. length(S)-window_size+1
\* return a window and the pull after them is the first to signal exhaustion.
C3_WindowCount ==
  Fits =>
    \A k \in 1..Len(results) :
      results[k].some <=> k <= Len(source) - window_size + 1

C3_Witness ==
  /\ Fits
  /\ window_size >= 2
  /\ Len(source) >= window_size + 1
  /\ Len(results) = Len(source) - window_size + 2
  /\ ~results[Len(results)].some

\* C4: with window_size = 0 every pull signals exhaustion, for an empty and
\* for a non-empty source.
C4_ZeroSizeEmpty ==
  (Built /\ window_size = 0) =>
    \A k \in 1..Len(results) : ~results[k].some

C4_Witness ==
  /\ Built
  /\ window_size = 0
  /\ source # <<>>
  /\ Len(results) >= 2

\* C5: for every window_size > length(S), windows(S, window_size) is an
\* empty iterator: there is an adapter, and its first pull and every later
\* pull signal exhaustion.
C5_OversizeEmpty ==
  (pc # "start" /\ window_size > Len(source)) =>
    /\ Built
    /\ \A k \in 1..Len(results) : ~results[k].some

\* C6: of two windows returned one after the other, the first without its
\* first element is the second without its last element.
C6_OverlapShift ==
  \A k \in 1..(Len(Emitted) - 1) :
    /\ Emitted[k].val # <<>>
    /\ Emitted[k + 1].val # <<>>
    /\ Tail(Emitted[k].val)
         = SubSeq(Emitted[k + 1].val, 1, Len(Emitted[k + 1].val) - 1)

C6_Witness ==
  /\ window_size = 3
  /\ Len(Emitted) >= 2
  /\ Emitted[1].val[1] # Emitted[1].val[2]
  /\ Emitted[2].val[3] # Emitted[1].val[3]

\* C7: over a source that stays exhausted, no pull returns a window after a
\* pull has signalled exhaustion, for every window_size, 0 included.
C7_StickyExhaustion ==
  \A i \in 1..Len(results) : \A j \in 1..Len(results) :
    (i < j /\ ~results[i].some) => ~results[j].some

C7_Witness ==
  /\ window_size >= 2
  /\ Len(results) >= 4
  /\ results[Len(results) - 2].some
  /\ ~results[Len(results) - 1].some
  /\ ~results[Len(results)].some

\* The window returned by pull k is as it was when it was returned.
Intact(k) == heap[results[k].addr] = [live |-> TRUE, v |-> results[k].val]

Untouched == {k \in 1..Len(results) : results[k].some /\ k \notin touched}

\* C8: a returned window is a copy of the buffer at the time of its return;
\* no later pull changes a window returned earlier, and the caller's changing
\* or dropping a window changes neither the buffer nor any other window.
C8_SnapshotIsolation ==
  [][ /\ (\A k \in Untouched : Intact(k))'
      /\ (Len(results') > Len(results) /\ results'[Len(results')].some) =>
           /\ results'[Len(results')].val = Buf
           /\ results'[Len(results')].addr # window
           /\ heap'[window] = heap[window]
      /\ (touched' # touched) =>
           /\ heap'[window] = heap[window]
           /\ \A k \in Untouched' : heap'[results[k].addr] = heap[results[k].addr]
    ]_vars

C8_Witness ==
  /\ Len(Emitted) >= 3
  /\ window_size = 2
  /\ touched = {2}
  /\ Intact(1)
  /\ Intact(3)
  /\ Buf = results[3].val
  /\ heap[results[2].addr] # [live |-> TRUE, v |-> results[2].val]

\* C9: constructing the adapter takes nothing from the source (also when the
\* construction fails) and leaves the buffer empty; the source is advanced
\* only inside a pull.
C9_Lazy ==
  [][ /\ (pc = "start" /\ pc' # "start") =>
           /\ iter' = source'
           /\ results' = <<>>
           /\ Built' => heap'[window'].v = <<>>
      /\ (Built /\ iter' # iter) => pc = "refill"
      /\ (Built' /\ results' = <<>> /\ pc' = "idle") => iter' = source'
    ]_vars

C9_Witness ==
  /\ pc = "idle"
  /\ results = <<>>
  /\ window_size = 2
  /\ Len(source) >= 3
  /\ iter = source
  /\ Buf = <<>>

\* C10: the buffer never holds more than window_size elements, between pulls
\* and at every step inside a pull.
C10_BufferBounded ==
  Built => Len(Buf) <= window_size

C10_Witness ==
  /\ pc = "refill"
  /\ window_size >= 2
  /\ Len(Emitted) >= 1
  /\ Len(Buf) = window_size
  /\ iter # <<>>

\* C11: over a finite source sequence S (a source that stays exhausted), the
\* buffer holds the most recently consumed source elements in source
\* order (with c elements consumed and m in the buffer, S[c-m+1 .. c], 1-based),
\* and a step changes it only by removing its first element or by adding one
\* element at its back.
C11_BufferIsRecentSuffix ==
  [][ /\ Built' =>
           Buf' = SubSeq(source', Consumed' - Len(Buf') + 1, Consumed')
      /\ Built =>
           \/ Buf' = Buf
           \/ Buf # <<>> /\ Buf' = Tail(Buf)
           \/ Len(Buf') = Len(Buf) + 1 /\ SubSeq(Buf', 1, Len(Buf)) = Buf
    ]_vars

C11_Witness ==
  /\ pc = "refill"
  /\ window_size = 3
  /\ Len(Emitted) >= 1
  /\ Consumed = 4
  /\ Buf = SubSeq(source, 2, 4)
  /\ Buf[1] # Buf[2]

LastIsNone == results # <<>> /\ ~results[Len(results)].some

\* The refill loop is about to get None from the source.
Aborting ==
  pc = "refill" /\ RefillNeeded(Len(Buf), window_size) /\ ~IterYields(iter)

SourceResumed ==
  \E p \in 1..Consumed : \E q \in 1..Consumed :
    p < q /\ source[p] = NoneItem /\ source[q] # NoneItem

\* C14 as stated: whatever the source, once a pull has signalled exhaustion
\* during a refill every later pull signals exhaustion.
C14_NeverResumes ==
  window_size > 0 =>
    \A j \in 2..Len(results) : ~results[j - 1].some => ~results[j].some

\* C14, amended: once a pull has signalled exhaustion during a refill, a later
\* pull returns a window only if the source has yielded an element after
\* having signalled exhaustion; over a source that stays exhausted the
\* adapter never resumes.
C14_ResumesOnlyWithSource ==
  \A i \in 1..Len(results) : \A j \in 1..Len(results) :
    (window_size > 0 /\ i < j /\ ~results[i].some /\ results[j].some)
      => SourceResumed

C14_Witness ==
  /\ window_size = 2
  /\ Len(results) >= 3
  /\ ~results[1].some
  /\ results[2].some
  /\ SourceResumed
  /\ pc = "idle"

\* C15: a pull takes at most window_size elements from the source and comes
\* to an end; for every finite source and every window_size, after
\* length(S) + 1 pulls at the latest a pull has signalled exhaustion, and a
\* caller that keeps pulling gets there.
C15_Termination ==
  /\ [](Built => pulled <= window_size)
  /\ [](Built /\ Len(results) >= Len(source) + 1 => Exhausted)
  /\ (pc = "refill") ~> (pc = "idle")
  /\ <>Exhausted

\* C16: with window_size = 0 a pull leaves the adapter as it was: the source
\* is never asked for an element, the buffer stays empty, nothing is cloned.
C16_ZeroSizeNoEffect ==
  (Built /\ window_size = 0) =>
    /\ iter = source
    /\ Buf = <<>>
    /\ pulled = 0
    /\ Len(heap) = 1
    /\ pc = "idle"

C16_Witness ==
  /\ Built
  /\ window_size = 0
  /\ Len(source) >= 2
  /\ Len(results) >= 3
  /\ iter = source

\* C17: the first exhausted pull after a returned window still evicts the
\* oldest element and leaves the last window_size - 1 source elements in the
\* buffer; once a pull has signalled exhaustion, over a source that stays
\* exhausted, no step changes the buffer or the number of consumed elements.
C17_ExhaustedPullEffect ==
  [][ /\ (pc = "idle" /\ pc' = "refill" /\ iter = <<>> /\ ~Exhausted
            /\ Emitted # <<>>) =>
           /\ Len(Buf) = window_size
           /\ Buf' = Tail(Buf)
           /\ Buf' # Buf
      /\ (Built /\ window_size > 0 /\ Exhausted /\ Emitted # <<>>)' =>
           /\ Len(Buf') = window_size' - 1
           /\ Buf' = SubSeq(source', Len(source') - window_size' + 2, Len(source'))
      /\ (Built /\ window_size > 0 /\ Exhausted) =>
           /\ Buf' = Buf
           /\ Consumed' = Consumed
    ]_vars

C17_Witness ==
  /\ pc = "idle"
  /\ window_size = 3
  /\ Len(source) = 4
  /\ Len(Emitted) = 2
  /\ Len(results) = 4
  /\ Len(Buf) = 2
  /\ Buf = SubSeq(source, 3, 4)

============================================================================
